---------------------------- MODULE Spec2Model ----------------------------
(***************************************************************************)
(* Model of the workflow-dispatcher CLI.  The repository holds five        *)
(* revisions of the same entry module; the variable `version` says which   *)
(* one is running:                                                         *)
(*   "index_js"   src/src/index.js               (runCLI)                  *)
(*   "part_000"   src/unnamed/part_000           (main)                    *)
(*   "part_001"   src/unnamed/part_001           (main)                    *)
(*   "part_002a"  src/unnamed/part_002 : 1-247   (main)                    *)
(*   "part_002b"  src/unnamed/part_002 : 249-604 (main)                    *)
(* JavaScript strings are sequences of one-character strings; the em dash  *)
(* of the display separator " -- " is written "-".  A JavaScript Set is a  *)
(* duplicate-free sequence in insertion order.                             *)
(***************************************************************************)
EXTENDS Integers, Sequences, FiniteSets, TLC

VARIABLES
    version,      \* which revision of the entry module runs
    gitOK,        \* environment: `git --version` succeeds
    ghOK,         \* environment: `gh --version` succeeds
    fzfOK,        \* environment: `fzf --version` succeeds
    pc,           \* position in main / in the selector it awaits
    probes,       \* number of has(cmd) calls made so far, per command
    refs,         \* const refs
    selectedRef,  \* const selectedRef
    raw,          \* const raw: the text `gh workflow list` printed
    data,         \* parsed workflow records
    workflows,    \* const workflows (the item list of the multi selector)
    selectedSet,  \* selectWithEnquirerMulti: const selectedSet = new Set()
    filter,       \* selectWithEnquirerMulti: the trimmed filter-prompt answer
    visible,      \* selectWithEnquirerMulti: const visible ({it, idx} pairs)
    choices,      \* selectWithEnquirerMulti: choices after toggle, separator
    result,       \* selectWithEnquirerMulti: last submitted picks
    rounds,       \* loop iterations of selectWithEnquirerMulti begun
    msRet,        \* how the multi selector ended: none / done / abort / threw
    wIdxs,        \* let wIdxs
    chosen,       \* const chosen
    ok,           \* const ok: "yes" / "no" for true / false, "unset" before
    confirmAnswer, \* what the operator gave the confirm prompt
    di,           \* 1-based position of the dispatch loop in chosen
    calls,        \* dispatch invocations made so far, in order
    out           \* messages printed by the program, in order

vars == <<version, gitOK, ghOK, fzfOK, pc, probes, refs, selectedRef, raw,
          data, workflows, selectedSet, filter, visible, choices, result,
          rounds, msRet, wIdxs, chosen, ok, confirmAnswer, di, calls, out>>

-----------------------------------------------------------------------------
(* Bounds of the model *)

MaxRounds == 4
MaxFzfLines == 2

-----------------------------------------------------------------------------
(* JavaScript values *)

Undefined == <<"undefined">>

Versions == {"index_js", "part_000", "part_001", "part_002a", "part_002b"}
LoopVersions == {"part_000", "part_001", "part_002b"}

Range(s) == {s[i] : i \in 1..Len(s)}

LowerChar(c) ==
    CASE c = "D" -> "d"
      [] c = "E" -> "e"
      [] c = "T" -> "t"
      [] c = "Y" -> "y"
      [] c = "S" -> "s"
      [] c = "N" -> "n"
      [] OTHER -> c

toLowerCase(s) == [i \in 1..Len(s) |-> LowerChar(s[i])]

IsSpace(c) == c \in {" ", "\n", "\t"}

RECURSIVE trimStart(_)
trimStart(s) ==
    IF s # <<>> /\ IsSpace(Head(s)) THEN trimStart(Tail(s)) ELSE s

RECURSIVE trimEnd(_)
trimEnd(s) ==
    IF s # <<>> /\ IsSpace(s[Len(s)])
    THEN trimEnd(SubSeq(s, 1, Len(s) - 1))
    ELSE s

trim(s) == trimEnd(trimStart(s))

\* String.prototype.includes
includes(s, q) ==
    \E i \in 0..(Len(s) - Len(q)) : SubSeq(s, i + 1, i + Len(q)) = q

\* Position (1-based) of the first occurrence of sep in s, 0 when absent.
FirstAt(s, sep) ==
    LET hits == {i \in 1..(Len(s) - Len(sep) + 1) :
                    SubSeq(s, i, i + Len(sep) - 1) = sep}
    IN  IF hits = {} THEN 0 ELSE CHOOSE i \in hits : \A j \in hits : i <= j

\* String.prototype.split(sep), sep non-empty
RECURSIVE split(_, _)
split(s, sep) ==
    LET p == FirstAt(s, sep)
    IN  IF p = 0
        THEN <<s>>
        ELSE <<SubSeq(s, 1, p - 1)>>
             \o split(SubSeq(s, p + Len(sep), Len(s)), sep)

\* Array.prototype.indexOf, zero-based, -1 when absent
indexOf(items, v) ==
    LET hits == {i \in 1..Len(items) : items[i] = v}
    IN  IF hits = {} THEN -1
        ELSE (CHOOSE i \in hits : \A j \in hits : i <= j) - 1

\* arr[i] for a zero-based i that may be out of range or undefined
At(arr, i) ==
    IF i \in 0..(Len(arr) - 1) THEN arr[i + 1] ELSE Undefined

\* arr[0] as an index: -1 stands for the undefined of an empty array
FirstOf(arr) == IF Len(arr) = 0 THEN -1 ELSE arr[1]

Map(s, F(_)) == [i \in 1..Len(s) |-> F(s[i])]

\* Set.prototype.has / add / delete on an insertion-ordered set
SetHas(S, v) == \E i \in 1..Len(S) : S[i] = v
\* Variant: an array that is pushed to, not a Set
SetAddAsList(S, v) == Append(S, v)
SetAdd(S, v) == IF SetHas(S, v) THEN S ELSE Append(S, v)
SetDelete(S, v) == SelectSeq(S, LAMBDA x : x # v)

RECURSIVE SetAddAll(_, _)
SetAddAll(S, vs) ==
    IF vs = <<>> THEN S ELSE SetAddAll(SetAdd(S, Head(vs)), Tail(vs))

RECURSIVE SetDeleteAll(_, _)
SetDeleteAll(S, vs) ==
    IF vs = <<>> THEN S ELSE SetDeleteAll(SetDelete(S, Head(vs)), Tail(vs))


-----------------------------------------------------------------------------
(* Number <-> text, as the fuzzy-finder backend uses them *)

Digits == <<"0", "1", "2", "3", "4", "5", "6", "7", "8", "9">>

IsDigit(c) == \E d \in 1..10 : Digits[d] = c

DigitVal(c) == (CHOOSE d \in 1..10 : Digits[d] = c) - 1

\* `${n}` for 0 <= n <= 99
RECURSIVE numToStr(_)
numToStr(n) ==
    IF n < 10 THEN <<Digits[n + 1]>>
    ELSE numToStr(n \div 10) \o <<Digits[(n % 10) + 1]>>

\* A JavaScript number that may be NaN
Num(n) == [nan |-> FALSE, v |-> n]
NaNValue == [nan |-> TRUE, v |-> 0]

RECURSIVE digitsValue(_, _)
digitsValue(s, acc) ==
    IF s # <<>> /\ IsDigit(Head(s))
    THEN digitsValue(Tail(s), 10 * acc + DigitVal(Head(s)))
    ELSE acc

\* parseInt(s, 10): leading white space skipped, the longest digit prefix read
parseInt(s) ==
    LET t == trimStart(s)
    IN  IF t # <<>> /\ IsDigit(Head(t)) THEN Num(digitsValue(t, 0)) ELSE NaNValue

\* Array.prototype.join("\n")
RECURSIVE join(_)
join(lines) ==
    IF lines = <<>> THEN <<>>
    ELSE IF Len(lines) = 1 THEN Head(lines)
    ELSE Head(lines) \o <<"\n">> \o join(Tail(lines))

-----------------------------------------------------------------------------
(* The external tools' outputs the model draws from *)

SEP == <<" ", "-", " ">>

WfDeploy == [name |-> <<"D", "e">>, path |-> <<"d">>, state |-> "active"]
WfTest   == [name |-> <<"T">>, path |-> <<"t">>, state |-> "active"]
WfDoc    == [name |-> <<"D", "t">>, path |-> <<"x">>, state |-> "active"]
WfOld    == [name |-> <<"o">>, path |-> <<"o">>, state |-> "disabled_manually"]

\* a workflow whose name holds the display separator ("a - b")
WfDash   == [name |-> <<"a">> \o SEP \o <<"b">>, path |-> <<"p">>, state |-> "active"]

\* Texts `gh workflow list --json name,path,state` can print: a JSON array
\* (json = TRUE, value = the array), or a text that is no JSON.  run() turns
\* a failing command into the empty text.
JsonText(records) == [json |-> TRUE, text |-> "array", value |-> records]
EmptyText == [json |-> FALSE, text |-> "", value |-> <<>>]
GarbageText == [json |-> FALSE, text |-> "<", value |-> <<>>]

WorkflowTexts ==
    { EmptyText, GarbageText,
      JsonText(<<>>),
      JsonText(<<WfOld>>),
      JsonText(<<WfDeploy, WfTest>>),
      JsonText(<<WfDeploy, WfOld, WfTest, WfDoc>>),
      JsonText(<<WfDeploy, WfDeploy>>),
      JsonText(<<WfDash>>) }

\* Variant: text that is not JSON is read as an empty array
JSONparseLenient(text) == [ok |-> TRUE, value |-> text.value]

\* JSON.parse: a false ok stands for the SyntaxError it throws
JSONparse(text) ==
    IF text.json THEN [ok |-> TRUE, value |-> text.value]
    ELSE [ok |-> FALSE, value |-> <<>>]

\* Texts `git for-each-ref --format=%(refname:short)` can print; the empty
\* text is also what run() returns when the command fails.
RefTexts ==
    { <<>>,
      <<"\n">>,
      <<"m", "\n">>,
      <<"m", "\n", "v", "1", "\n">>,
      <<" ", "m", " ", "\n", "\n", "v", "1">> }

\* What the operator can type at the filter prompt
CmdDone == <<":", "d", "o", "n", "e">>
CmdReset == <<":", "r", "e", "s", "e", "t">>

FilterQueries ==
    { <<>>, <<"d", "e">>, <<" ", "D", " ">>, <<"t">>, <<"z">> }

\* What the operator can type at the line-based yes/no reader
Answers ==
    { <<>>, <<"y">>, <<" ", "Y", "E", "S", " ">>, <<"n">>, <<"y", "e", "s", "s">> }

\* `${w.name} — ${w.path}`
Display(w) == w.name \o SEP \o w.path


-----------------------------------------------------------------------------
(* Pure parts of the program *)

\* has(cmd): the probe's answer in this environment
has(cmd) ==
    CASE cmd = "git" -> gitOK
      [] cmd = "gh"  -> ghOK
      [] cmd = "fzf" -> fzfOK

\* run(...).split("\n").map((s) => s.trim()).filter(Boolean)
RefsOf(text) ==
    SelectSeq(Map(split(text, <<"\n">>), trim), LAMBDA r : r # <<>>)

\* Variant: every record is offered, whatever its state
WorkflowsOfAnyState(records) == Map(records, Display)

\* data.filter((w) => w.state === "active").map((w) => `${w.name} — ${w.path}`)
WorkflowsOf(records) ==
    Map(SelectSeq(records, LAMBDA w : w.state = "active"), Display)

\* ---- selectWithFzf ----

FZF_SELECT_ALL == <<"__SELECT_ALL__">>

\* The records written to the fuzzy-finder's input stream
FzfInput(ver, items, multi) ==
    IF ver = "part_002a"
    THEN LET list == IF multi THEN <<FZF_SELECT_ALL>> \o items ELSE items
         IN  [i \in 1..Len(list) |-> numToStr(i - 1) \o <<"\t">> \o list[i]]
    ELSE [i \in 1..Len(items) |-> numToStr(i) \o <<"\t">> \o items[i]]

NumMinus1(x) == IF x.nan THEN x ELSE Num(x.v - 1)
InRange(x, n) == ~x.nan /\ x.v >= 0 /\ x.v < n
NumsToInts(xs) == [i \in 1..Len(xs) |-> xs[i].v]

\* Variant: the leading number is taken for the index itself
FzfParseNoOffset(ver, outText, items, multi) ==
    LET lines == split(trim(outText), <<"\n">>)
    IN  IF trim(outText) = <<>> THEN <<>>
        ELSE NumsToInts(SelectSeq(
                 Map(lines, LAMBDA l : parseInt(Head(split(l, <<"\t">>)))),
                 LAMBDA i : InRange(i, Len(items))))

\* The "close" handler: the fuzzy-finder's output text to zero-based indices
FzfParse(ver, outText, items, multi) ==
    LET n == Len(items)
        lines == split(trim(outText), <<"\n">>)
        tokOf(line) == Head(split(line, <<"\t">>))
    IN  IF trim(outText) = <<>> THEN <<>>
        ELSE IF ver \in {"index_js", "part_001"}
        THEN NumsToInts(SelectSeq(
                 Map(lines, LAMBDA l : NumMinus1(parseInt(tokOf(l)))),
                 LAMBDA i : InRange(i, n)))
        ELSE IF ver \in {"part_000", "part_002b"}
        THEN NumsToInts(SelectSeq(
                 Map(lines, LAMBDA l :
                        LET k == parseInt(trim(tokOf(l)))
                        IN  IF k.nan THEN Num(-1) ELSE Num(k.v - 1)),
                 LAMBDA i : InRange(i, n)))
        ELSE LET idxs == Map(lines, LAMBDA l : parseInt(tokOf(l)))
             IN  IF multi /\ \E j \in 1..Len(idxs) : idxs[j] = Num(0)
                 THEN [i \in 1..n |-> i - 1]
                 ELSE IF multi
                 THEN NumsToInts(SelectSeq(Map(idxs, NumMinus1),
                                           LAMBDA i : InRange(i, n)))
                 ELSE NumsToInts(SelectSeq(idxs, LAMBDA i : InRange(i, n)))

\* ---- selectWithEnquirerMulti, the filter/select loop ----

TOGGLE == <<"__TOGGLE__">>

\* Variant: the items are compared without lower-casing them
VisibleOfCaseSensitive(items, query) ==
    LET q == toLowerCase(query)
        pairs == [i \in 1..Len(items) |-> [it |-> items[i], idx |-> i - 1]]
    IN  IF q = <<>> THEN pairs
        ELSE SelectSeq(pairs, LAMBDA p : includes(p.it, q))

\* const visible = q === "" ? all : items whose lower-cased text includes q
VisibleOf(items, query) ==
    LET q == toLowerCase(query)
        pairs == [i \in 1..Len(items) |-> [it |-> items[i], idx |-> i - 1]]
    IN  IF q = <<>> THEN pairs
        ELSE SelectSeq(pairs, LAMBDA p : includes(toLowerCase(p.it), q))

VisItems(vis) == [i \in 1..Len(vis) |-> vis[i].it]

\* The entries of `choices` after the toggle entry and the separator
ChoicesOf(vis, S) ==
    [i \in 1..Len(vis) |->
        [name |-> vis[i].it, value |-> vis[i].it, selected |-> SetHas(S, vis[i].it)]]

\* Variants of the update, each with one plausible slip, used to test that
\* the properties below depend on the update rules.
\* (a) no toggle: the whole set is cleared, not only the visible items
UpdateSelectionClearsAll(S, vis, res) ==
    LET its == VisItems(vis)
    IN  IF \E i \in 1..Len(res) : res[i] = TOGGLE
        THEN LET rest == SelectSeq(res, LAMBDA v : v # TOGGLE)
             IN  IF Len(rest) = 0
                 THEN IF \A i \in 1..Len(its) : SetHas(S, its[i])
                      THEN SetDeleteAll(S, its)
                      ELSE SetAddAll(S, its)
                 ELSE SetAddAll(SetDeleteAll(S, its), rest)
        ELSE SetAddAll(<<>>, res)

\* (b) toggle only: "some visible item is selected" decides, not "every"
UpdateSelectionToggleSome(S, vis, res) ==
    LET its == VisItems(vis)
    IN  IF \E i \in 1..Len(res) : res[i] = TOGGLE
        THEN LET rest == SelectSeq(res, LAMBDA v : v # TOGGLE)
             IN  IF Len(rest) = 0
                 THEN IF \E i \in 1..Len(its) : SetHas(S, its[i])
                      THEN SetDeleteAll(S, its)
                      ELSE SetAddAll(S, its)
                 ELSE SetAddAll(SetDeleteAll(S, its), rest)
        ELSE SetAddAll(SetDeleteAll(S, its), res)

\* (c) no toggle: the submitted entries are added, the visible ones not removed
UpdateSelectionAddsOnly(S, vis, res) ==
    LET its == VisItems(vis)
    IN  IF \E i \in 1..Len(res) : res[i] = TOGGLE
        THEN LET rest == SelectSeq(res, LAMBDA v : v # TOGGLE)
             IN  IF Len(rest) = 0
                 THEN IF \A i \in 1..Len(its) : SetHas(S, its[i])
                      THEN SetDeleteAll(S, its)
                      ELSE SetAddAll(S, its)
                 ELSE SetAddAll(SetDeleteAll(S, its), rest)
        ELSE SetAddAll(S, res)

\* (d) toggle with explicit picks: the toggle entry is not filtered out
UpdateSelectionKeepsToggle(S, vis, res) ==
    LET its == VisItems(vis)
    IN  IF \E i \in 1..Len(res) : res[i] = TOGGLE
        THEN LET rest == SelectSeq(res, LAMBDA v : v # TOGGLE)
             IN  IF Len(rest) = 0
                 THEN IF \A i \in 1..Len(its) : SetHas(S, its[i])
                      THEN SetDeleteAll(S, its)
                      ELSE SetAddAll(S, its)
                 ELSE SetAddAll(SetDeleteAll(S, its), res)
        ELSE SetAddAll(SetDeleteAll(S, its), res)

\* (e) toggle only: every visible item changes side on its own
UpdateSelectionInverts(S, vis, res) ==
    LET its == VisItems(vis)
    IN  IF \E i \in 1..Len(res) : res[i] = TOGGLE
        THEN LET rest == SelectSeq(res, LAMBDA v : v # TOGGLE)
             IN  IF Len(rest) = 0
                 THEN SetAddAll(SetDeleteAll(S, its),
                                SelectSeq(its, LAMBDA it : ~SetHas(S, it)))
                 ELSE SetAddAll(SetDeleteAll(S, its), rest)
        ELSE SetAddAll(SetDeleteAll(S, its), res)

\* (f) toggle with explicit picks: the picks are added to what was selected
UpdateSelectionToggleAdds(S, vis, res) ==
    LET its == VisItems(vis)
    IN  IF \E i \in 1..Len(res) : res[i] = TOGGLE
        THEN LET rest == SelectSeq(res, LAMBDA v : v # TOGGLE)
             IN  IF Len(rest) = 0
                 THEN IF \A i \in 1..Len(its) : SetHas(S, its[i])
                      THEN SetDeleteAll(S, its)
                      ELSE SetAddAll(S, its)
                 ELSE SetAddAll(S, rest)
        ELSE SetAddAll(SetDeleteAll(S, its), res)

\* (g) no toggle: the visible items are removed, the picks not added back
UpdateSelectionDropsPicks(S, vis, res) ==
    LET its == VisItems(vis)
    IN  IF \E i \in 1..Len(res) : res[i] = TOGGLE
        THEN LET rest == SelectSeq(res, LAMBDA v : v # TOGGLE)
             IN  IF Len(rest) = 0
                 THEN IF \A i \in 1..Len(its) : SetHas(S, its[i])
                      THEN SetDeleteAll(S, its)
                      ELSE SetAddAll(S, its)
                 ELSE SetAddAll(SetDeleteAll(S, its), rest)
        ELSE SetDeleteAll(S, its)

\* The update of selectedSet after a submitted pick round
UpdateSelection(S, vis, res) ==
    LET its == VisItems(vis)
    IN  IF \E i \in 1..Len(res) : res[i] = TOGGLE
        THEN LET rest == SelectSeq(res, LAMBDA v : v # TOGGLE)
             IN  IF Len(rest) = 0
                 THEN IF \A i \in 1..Len(its) : SetHas(S, its[i])
                      THEN SetDeleteAll(S, its)
                      ELSE SetAddAll(S, its)
                 ELSE SetAddAll(SetDeleteAll(S, its), rest)
        ELSE SetAddAll(SetDeleteAll(S, its), res)

\* Variant: the positions inside the Set are returned, not those in items
DoneResultByPosition(S, items) == [i \in 1..Len(S) |-> i - 1]

\* Array.from(selectedSet).map((v) => items.indexOf(v)).filter((i) => i >= 0)
DoneResult(S, items) ==
    SelectSeq(Map(S, LAMBDA v : indexOf(items, v)), LAMBDA i : i >= 0)

\* ---- the one-round multi selectors of the two older revisions ----

StartsWith(s, pre) == Len(s) >= Len(pre) /\ SubSeq(s, 1, Len(pre)) = pre

SELECT_ALL == <<"_", "_", "s", "e", "l", "e", "c", "t", "_", "a", "l", "l">>
UNSELECT_ALL == <<"_", "_", "u", "n", "s", "e", "l", "e", "c", "t", "_", "a", "l", "l">>
TOGGLE_ALL == <<"__TOGGLE_ALL__">>

\* index.js: result(names) strips the meta entries, then picked.map(indexOf)
OneRoundIndexJs(items, names) ==
    Map(SelectSeq(names, LAMBDA n : ~StartsWith(n, <<"_", "_">>)),
        LAMBDA v : indexOf(items, v))

\* part_002 (first module): toggle-all alone selects everything
OneRoundToggleAll(items, ans) ==
    IF \E i \in 1..Len(ans) : ans[i] = TOGGLE_ALL
    THEN LET rest == SelectSeq(ans, LAMBDA v : v # TOGGLE_ALL)
         IN  IF Len(rest) = 0
             THEN [i \in 1..Len(items) |-> i - 1]
             ELSE SelectSeq(Map(rest, LAMBDA v : indexOf(items, v)),
                            LAMBDA i : i >= 0)
    ELSE SelectSeq(Map(ans, LAMBDA v : indexOf(items, v)), LAMBDA i : i >= 0)

\* ---- confirm ----

\* readlineConfirm / the readline confirm: (answer || "").trim().toLowerCase()
readlineConfirm(answer) ==
    LET a == toLowerCase(trim(answer))
    IN  a = <<"y">> \/ a = <<"y", "e", "s">>

\* ---- main ----

\* const chosen = wIdxs.map((i) => workflows[i])  (.filter(Boolean) in the
\* first module of part_002)
ChosenOf(ver, idxs, items) ==
    LET all == Map(idxs, LAMBDA i : At(items, i))
    IN  IF ver = "part_002a"
        THEN SelectSeq(all, LAMBDA w : w # Undefined /\ w # <<>>)
        ELSE all

\* const path = w.split(" — ")[1]
PathOf(w) == At(split(w, SEP), 1)


-----------------------------------------------------------------------------
(* The state machine *)

Unset == <<"unset">>

\* Before `gh workflow list` has run / before confirm has been answered
NoText == [json |-> FALSE, text |-> "unset", value |-> <<>>]
NoAnswer == [backend |-> "none"]

Init ==
    /\ version \in Versions
    /\ gitOK \in BOOLEAN
    /\ ghOK \in BOOLEAN
    /\ fzfOK \in BOOLEAN
    /\ pc = "probeGit"
    /\ probes = [c \in {"git", "gh", "fzf"} |-> 0]
    /\ refs = <<>>
    /\ selectedRef = Unset
    /\ raw = NoText
    /\ data = <<>>
    /\ workflows = <<>>
    /\ selectedSet = <<>>
    /\ filter = Unset
    /\ visible = <<>>
    /\ choices = <<>>
    /\ result = <<>>
    /\ rounds = 0
    /\ msRet = "none"
    /\ wIdxs = <<>>
    /\ chosen = <<>>
    /\ ok = "unset"
    /\ confirmAnswer = NoAnswer
    /\ di = 0
    /\ calls = <<>>
    /\ out = <<>>

Probed(cmd) == probes' = [probes EXCEPT ![cmd] = @ + 1]

selVars == <<selectedSet, filter, visible, choices, result, rounds, msRet>>
envVars == <<version, gitOK, ghOK, fzfOK>>
tailVars == <<ok, confirmAnswer, di, calls>>

\* if (!has("git")) { console.error("git not found"); process.exit(1); }
ProbeGit ==
    /\ pc = "probeGit"
    /\ Probed("git")
    /\ IF has("git")
       THEN pc' = "probeGh" /\ out' = out
       ELSE pc' = "exit1" /\ out' = Append(out, "git not found")
    /\ UNCHANGED <<envVars, refs, selectedRef, raw, data, workflows, selVars,
                   wIdxs, chosen, tailVars>>

\* Variant: the missing tool is reported but the process does not exit
ProbeGhContinues ==
    /\ pc = "probeGh"
    /\ Probed("gh")
    /\ pc' = "listRefs"
    /\ out' = IF has("gh") THEN out ELSE Append(out, "gh not found")
    /\ UNCHANGED <<envVars, refs, selectedRef, raw, data, workflows, selVars,
                   wIdxs, chosen, tailVars>>

\* if (!has("gh")) { console.error("gh not found"); process.exit(1); }
ProbeGh ==
    /\ pc = "probeGh"
    /\ Probed("gh")
    /\ IF has("gh")
       THEN pc' = "listRefs" /\ out' = out
       ELSE pc' = "exit1" /\ out' = Append(out, "gh not found")
    /\ UNCHANGED <<envVars, refs, selectedRef, raw, data, workflows, selVars,
                   wIdxs, chosen, tailVars>>

\* 1. Get refs
ListRefs ==
    /\ pc = "listRefs"
    /\ \E text \in RefTexts :
          /\ refs' = RefsOf(text)
          /\ IF Len(RefsOf(text)) = 0
             THEN pc' = "returned" /\ out' = Append(out, "No refs found.")
             ELSE pc' = "refFzf" /\ out' = out
    /\ UNCHANGED <<envVars, probes, selectedRef, raw, data, workflows, selVars,
                   wIdxs, chosen, tailVars>>

\* What the fuzzy-finder can print: some of its input records, each at most
\* once, in any order, possibly with a line that is none of them.
FzfOutputs(lines, multi) ==
    LET cand == Range(lines) \cup {<<"x">>}
        most == IF multi THEN MaxFzfLines ELSE 1
        seqs == UNION {[1..k -> cand] : k \in 0..most}
    IN  {join(s) \o (IF s = <<>> THEN <<>> ELSE <<"\n">>) :
            s \in {t \in seqs : \A i, j \in 1..Len(t) : i # j => t[i] # t[j]}}

\* Variant: without the fuzzy-finder the ref selection is skipped
RefFzfUnavailableSkips ==
    /\ pc = "refFzf"
    /\ Probed("fzf")
    /\ ~has("fzf")
    /\ pc' = "listWorkflows"
    /\ UNCHANGED <<envVars, refs, selectedRef, raw, data, workflows, selVars,
                   wIdxs, chosen, tailVars, out>>

\* 2. Select ref: selectWithFzf returned null
RefFzfUnavailable ==
    /\ pc = "refFzf"
    /\ Probed("fzf")
    /\ ~has("fzf")
    /\ pc' = "refEnquirer"
    /\ UNCHANGED <<envVars, refs, selectedRef, raw, data, workflows, selVars,
                   wIdxs, chosen, tailVars, out>>

\* 2. Select ref: the fuzzy-finder ran and closed
RefFzfSelect ==
    /\ pc = "refFzf"
    /\ Probed("fzf")
    /\ has("fzf")
    /\ \E text \in FzfOutputs(FzfInput(version, refs, FALSE), FALSE) :
          LET refIdxs == FzfParse(version, text, refs, FALSE)
          IN  IF version \in {"part_002a", "part_002b"} /\ Len(refIdxs) = 0
              THEN /\ out' = Append(out, "No selection.")
                   /\ pc' = "returned"
                   /\ selectedRef' = selectedRef
              ELSE /\ selectedRef' = At(refs, FirstOf(refIdxs))
                   /\ out' = Append(out, "Selected ref:")
                   /\ pc' = "listWorkflows"
    /\ UNCHANGED <<envVars, refs, raw, data, workflows, selVars, wIdxs, chosen,
                   tailVars>>

\* selectWithEnquirerSingle: the operator chooses one of the items
RefEnquirerSelect ==
    /\ pc = "refEnquirer"
    /\ \E ans \in Range(refs) :
          selectedRef' = At(refs, indexOf(refs, ans))
    /\ out' = Append(out, "Selected ref:")
    /\ pc' = "listWorkflows"
    /\ UNCHANGED <<envVars, probes, refs, raw, data, workflows, selVars, wIdxs,
                   chosen, tailVars>>

\* selectWithEnquirerSingle: the prompt rejects; nothing in main catches it
RefEnquirerAbort ==
    /\ pc = "refEnquirer"
    /\ pc' = "threw"
    /\ UNCHANGED <<envVars, probes, refs, selectedRef, raw, data, workflows,
                   selVars, wIdxs, chosen, tailVars, out>>

\* 3. Fetch workflows
ListWorkflows ==
    /\ pc = "listWorkflows"
    /\ \E text \in WorkflowTexts :
          /\ raw' = text
          /\ LET parsed == JSONparse(text)
             IN  IF ~parsed.ok
                 THEN /\ out' = Append(out, "Invalid workflow JSON")
                      /\ pc' = "returned"
                      /\ UNCHANGED <<data, workflows>>
                 ELSE /\ data' = parsed.value
                      /\ workflows' = WorkflowsOf(parsed.value)
                      /\ IF Len(WorkflowsOf(parsed.value)) = 0
                         THEN pc' = "returned"
                              /\ out' = Append(out, "No active workflows.")
                         ELSE pc' = "wfFzf" /\ out' = out
    /\ UNCHANGED <<envVars, probes, refs, selectedRef, selVars, wIdxs,
                   chosen, tailVars>>

\* main after the multi selection returned idxs, up to the confirm prompt
Selected(idxs, printed) ==
    /\ wIdxs' = idxs
    /\ IF Len(idxs) = 0
       THEN /\ out' = Append(printed, "Nothing selected.")
            /\ pc' = "returned"
            /\ chosen' = chosen
       ELSE /\ chosen' = ChosenOf(version, idxs, workflows)
            /\ out' = Append(printed, "Will dispatch:")
            /\ pc' = "confirm"

\* Variant: the null of an absent fuzzy-finder is taken for an empty result
WfFzfUnavailableEnds ==
    /\ pc = "wfFzf"
    /\ Probed("fzf")
    /\ ~has("fzf")
    /\ Selected(<<>>, out)
    /\ UNCHANGED <<envVars, refs, selectedRef, raw, data, workflows, selVars,
                   tailVars>>

\* 4. Select workflows: selectWithFzf returned null
WfFzfUnavailable ==
    /\ pc = "wfFzf"
    /\ Probed("fzf")
    /\ ~has("fzf")
    /\ pc' = IF version \in LoopVersions THEN "filter" ELSE "wfEnquirer"
    /\ UNCHANGED <<envVars, refs, selectedRef, raw, data, workflows, selVars,
                   wIdxs, chosen, tailVars, out>>

\* 4. Select workflows: the fuzzy-finder ran and closed
WfFzfSelect ==
    /\ pc = "wfFzf"
    /\ Probed("fzf")
    /\ has("fzf")
    /\ \E text \in FzfOutputs(FzfInput(version, workflows, TRUE), TRUE) :
          Selected(FzfParse(version, text, workflows, TRUE), out)
    /\ UNCHANGED <<envVars, refs, selectedRef, raw, data, workflows, selVars,
                   tailVars>>


\* The names a MultiSelect prompt returns: the enabled choices, in the order
\* of the choice list.
PickedNames(names, picks) ==
    LET RECURSIVE keep(_)
        keep(i) == IF i > Len(names) THEN <<>>
                   ELSE (IF i \in picks THEN <<names[i]>> ELSE <<>>) \o keep(i + 1)
    IN  keep(1)

\* index.js / first module of part_002: the one-round MultiSelect is submitted
WfEnquirerSelect ==
    /\ pc = "wfEnquirer"
    /\ LET names == IF version = "index_js"
                    THEN <<SELECT_ALL, UNSELECT_ALL>> \o workflows
                    ELSE <<TOGGLE_ALL>> \o workflows
       IN  \E picks \in SUBSET (1..Len(names)) :
              LET ans == PickedNames(names, picks)
              IN  Selected(IF version = "index_js"
                           THEN OneRoundIndexJs(workflows, ans)
                           ELSE OneRoundToggleAll(workflows, ans), out)
    /\ UNCHANGED <<envVars, probes, refs, selectedRef, raw, data, workflows,
                   selVars, tailVars>>

\* index.js / first module of part_002: the MultiSelect rejects, uncaught
WfEnquirerAbort ==
    /\ pc = "wfEnquirer"
    /\ pc' = "threw"
    /\ UNCHANGED <<envVars, probes, refs, selectedRef, raw, data, workflows,
                   selVars, wIdxs, chosen, tailVars, out>>

\* ---- selectWithEnquirerMulti: the filter prompt ----

\* The prompt rejects: return [] where the await is inside try/catch,
\* a rejection of selectWithEnquirerMulti itself in part_000
AbortResult(ver) == IF ver = "part_000" THEN "threw" ELSE "abort"

LoopAbort ==
    /\ msRet' = AbortResult(version)
    /\ IF AbortResult(version) = "threw"
       THEN pc' = "threw" /\ UNCHANGED <<wIdxs, chosen, out>>
       ELSE Selected(<<>>, out)
    /\ UNCHANGED <<envVars, probes, refs, selectedRef, raw, data, workflows,
                   selectedSet, filter, visible, choices, result, rounds,
                   tailVars>>

FilterAbort ==
    /\ pc = "filter"
    /\ LoopAbort

\* filter === ":done"
FilterDone ==
    /\ pc = "filter"
    /\ \E typed \in {CmdDone, <<" ">> \o CmdDone} :
          /\ trim(typed) = CmdDone
          /\ filter' = trim(typed)
          /\ msRet' = "done"
          /\ Selected(DoneResult(selectedSet, workflows), out)
    /\ UNCHANGED <<envVars, probes, refs, selectedRef, raw, data, workflows,
                   selectedSet, visible, choices, result, rounds, tailVars>>

\* Variant: :reset leaves the set as it is
ClearSelectionKeeps(S) == S

\* selectedSet.clear()
ClearSelection(S) == <<>>

\* filter === ":reset"
FilterReset ==
    /\ pc = "filter"
    /\ rounds < MaxRounds
    /\ \E typed \in {CmdReset, CmdReset \o <<" ">>} :
          /\ trim(typed) = CmdReset
          /\ filter' = trim(typed)
    /\ selectedSet' = ClearSelection(selectedSet)
    /\ rounds' = rounds + 1
    /\ UNCHANGED <<envVars, pc, probes, refs, selectedRef, raw, data, workflows,
                   visible, choices, result, msRet, wIdxs, chosen, tailVars,
                   out>>

\* Variant: the pick prompt is presented although nothing is visible
FilterNoMatchShowsPick ==
    /\ pc = "filter"
    /\ rounds < MaxRounds
    /\ \E typed \in FilterQueries :
          LET f == trim(typed)
          IN  /\ f \notin {CmdDone, CmdReset}
              /\ Len(VisibleOf(workflows, f)) = 0
              /\ filter' = f
              /\ visible' = VisibleOf(workflows, f)
    /\ choices' = <<>>
    /\ pc' = "pick"
    /\ rounds' = rounds + 1
    /\ UNCHANGED <<envVars, probes, refs, selectedRef, raw, data, workflows,
                   selectedSet, result, msRet, wIdxs, chosen, tailVars, out>>

\* any other text whose filter shows nothing
FilterNoMatch ==
    /\ pc = "filter"
    /\ rounds < MaxRounds
    /\ \E typed \in FilterQueries :
          LET f == trim(typed)
          IN  /\ f \notin {CmdDone, CmdReset}
              /\ Len(VisibleOf(workflows, f)) = 0
              /\ filter' = f
              /\ visible' = VisibleOf(workflows, f)
    /\ out' = Append(out, "No items match that filter")
    /\ rounds' = rounds + 1
    /\ UNCHANGED <<envVars, pc, probes, refs, selectedRef, raw, data, workflows,
                   selectedSet, choices, result, msRet, wIdxs, chosen,
                   tailVars>>

\* any other text: the visible subset is computed and the pick prompt built
FilterQuery ==
    /\ pc = "filter"
    /\ rounds < MaxRounds
    /\ \E typed \in FilterQueries :
          LET f == trim(typed)
          IN  /\ f \notin {CmdDone, CmdReset}
              /\ Len(VisibleOf(workflows, f)) > 0
              /\ filter' = f
              /\ visible' = VisibleOf(workflows, f)
              /\ choices' = ChoicesOf(VisibleOf(workflows, f), selectedSet)
    /\ rounds' = rounds + 1
    /\ pc' = "pick"
    /\ UNCHANGED <<envVars, probes, refs, selectedRef, raw, data, workflows,
                   selectedSet, result, msRet, wIdxs, chosen, tailVars, out>>

\* ---- selectWithEnquirerMulti: the pick prompt ----

PickAbort ==
    /\ pc = "pick"
    /\ LoopAbort

\* Variant: the selector returns after the first submitted pick round
PickSubmitReturns ==
    /\ pc = "pick"
    /\ \E picks \in SUBSET (1..(Len(choices) + 1)) :
          LET names == <<TOGGLE>> \o [i \in 1..Len(choices) |-> choices[i].name]
              res == PickedNames(names, picks)
          IN  /\ result' = res
              /\ selectedSet' = UpdateSelection(selectedSet, visible, res)
              /\ Selected(DoneResult(UpdateSelection(selectedSet, visible, res),
                                     workflows), out)
    /\ UNCHANGED <<envVars, probes, refs, selectedRef, raw, data, workflows,
                   filter, visible, choices, rounds, msRet, tailVars>>

\* The operator submits some of the presented entries; selectedSet is updated
PickSubmit ==
    /\ pc = "pick"
    /\ \E picks \in SUBSET (1..(Len(choices) + 1)) :
          LET names == <<TOGGLE>> \o [i \in 1..Len(choices) |-> choices[i].name]
              res == PickedNames(names, picks)
          IN  /\ result' = res
              /\ selectedSet' = UpdateSelection(selectedSet, visible, res)
    /\ pc' = "filter"
    /\ UNCHANGED <<envVars, probes, refs, selectedRef, raw, data, workflows,
                   filter, visible, choices, rounds, msRet, wIdxs, chosen,
                   tailVars, out>>


\* ---- confirm ----

\* Which confirm the revision ends up in: the Enquirer prompt, or the
\* line-based reader (part_000 names an undeclared EnquirerConfirm inside
\* its try block, so its catch branch always runs readlineConfirm)
ConfirmBackend(ver) ==
    IF ver \in {"index_js", "part_001"} THEN "enquirer" ELSE "readline"

\* Variant: the answer is stored but not tested
ConfirmedAnyway(answer) ==
    /\ ok' = (IF answer THEN "yes" ELSE "no")
    /\ pc' = "dispatch" /\ di' = 1 /\ out' = out

\* main after confirm returned answer
Confirmed(answer) ==
    /\ ok' = (IF answer THEN "yes" ELSE "no")
    /\ IF answer
       THEN pc' = "dispatch" /\ di' = 1 /\ out' = out
       ELSE pc' = "returned" /\ di' = di /\ out' = Append(out, "Cancelled.")

ConfirmEnquirer ==
    /\ pc = "confirm"
    /\ ConfirmBackend(version) = "enquirer"
    /\ \E answer \in BOOLEAN :
          /\ confirmAnswer' = [backend |-> "enquirer", value |-> answer]
          /\ Confirmed(answer)
    /\ UNCHANGED <<envVars, probes, refs, selectedRef, raw, data, workflows,
                   selVars, wIdxs, chosen, calls>>

\* the Confirm prompt rejects; nothing in main catches it
ConfirmEnquirerAbort ==
    /\ pc = "confirm"
    /\ ConfirmBackend(version) = "enquirer"
    /\ pc' = "threw"
    /\ UNCHANGED <<envVars, probes, refs, selectedRef, raw, data, workflows,
                   selVars, wIdxs, chosen, tailVars, out>>

ConfirmReadline ==
    /\ pc = "confirm"
    /\ ConfirmBackend(version) = "readline"
    /\ \E answer \in Answers :
          /\ confirmAnswer' = [backend |-> "readline", line |-> answer]
          /\ Confirmed(readlineConfirm(answer))
    /\ UNCHANGED <<envVars, probes, refs, selectedRef, raw, data, workflows,
                   selVars, wIdxs, chosen, calls>>

\* ---- 5. Dispatch workflow runs ----

\* if (!path) continue;   (first module of part_002 only)
SkipsItem(ver, path) ==
    ver = "part_002a" /\ (path = Undefined \/ path = <<>>)

\* One iteration up to the start of execFileSync("gh", ["workflow", "run", ...])
DispatchStart ==
    /\ pc = "dispatch"
    /\ di <= Len(chosen)
    /\ IF SkipsItem(version, PathOf(chosen[di]))
       THEN di' = di + 1 /\ UNCHANGED <<pc, out>>
       ELSE /\ out' = Append(out, "Dispatching")
            /\ pc' = "invoking"
            /\ di' = di
    /\ UNCHANGED <<envVars, probes, refs, selectedRef, raw, data, workflows,
                   selVars, wIdxs, chosen, ok, confirmAnswer, calls>>

\* How execFileSync can end: with an undefined argument either the argument
\* check throws before any process is started, or gh is started with the
\* text "undefined" and fails on it; otherwise the exit status of gh decides
Outcomes(path, ref) ==
    IF path = Undefined \/ ref = Undefined
    THEN {"invalid argument", "failed"}
    ELSE {"ok", "failed"}

\* Variant: a failed invocation ends the loop
NextItemStopsOnFailure(i, res) ==
    IF res = "ok" THEN i + 1 ELSE Len(chosen) + 1

\* for (const w of chosen) { try { ... } catch (e) { ... } }: the loop goes
\* on to the next item whether the invocation returned or threw
NextItem(i, res) == i + 1

\* Variant: the catch block prints nothing
DispatchEndSilent ==
    /\ pc = "invoking"
    /\ \E res \in Outcomes(PathOf(chosen[di]), selectedRef) :
          /\ calls' = Append(calls, [path |-> PathOf(chosen[di]),
                                     ref |-> selectedRef,
                                     item |-> di,
                                     status |-> res])
          /\ di' = NextItem(di, res)
    /\ pc' = "dispatch"
    /\ UNCHANGED <<envVars, probes, refs, selectedRef, raw, data, workflows,
                   selVars, wIdxs, chosen, ok, confirmAnswer, out>>

\* execFileSync returned or threw; catch (e) { console.error("Failed:", ...) }
DispatchEnd ==
    /\ pc = "invoking"
    /\ \E res \in Outcomes(PathOf(chosen[di]), selectedRef) :
          /\ calls' = Append(calls, [path |-> PathOf(chosen[di]),
                                     ref |-> selectedRef,
                                     item |-> di,
                                     status |-> res])
          /\ out' = IF res = "ok" THEN out ELSE Append(out, "Failed:")
          /\ di' = NextItem(di, res)
    /\ pc' = "dispatch"
    /\ UNCHANGED <<envVars, probes, refs, selectedRef, raw, data, workflows,
                   selVars, wIdxs, chosen, ok, confirmAnswer>>

\* console.log("Done.")
DispatchDone ==
    /\ pc = "dispatch"
    /\ di > Len(chosen)
    /\ out' = Append(out, "Done.")
    /\ pc' = "returned"
    /\ UNCHANGED <<envVars, probes, refs, selectedRef, raw, data, workflows,
                   selVars, wIdxs, chosen, tailVars>>

Next ==
    \/ ProbeGit
    \/ ProbeGh
    \/ ListRefs
    \/ RefFzfUnavailable
    \/ RefFzfSelect
    \/ RefEnquirerSelect
    \/ RefEnquirerAbort
    \/ ListWorkflows
    \/ WfFzfUnavailable
    \/ WfFzfSelect
    \/ WfEnquirerSelect
    \/ WfEnquirerAbort
    \/ FilterAbort
    \/ FilterDone
    \/ FilterReset
    \/ FilterNoMatch
    \/ FilterQuery
    \/ PickAbort
    \/ PickSubmit
    \/ ConfirmEnquirer
    \/ ConfirmEnquirerAbort
    \/ ConfirmReadline
    \/ DispatchStart
    \/ DispatchEnd
    \/ DispatchDone

Spec == Init /\ [][Next]_vars


-----------------------------------------------------------------------------
(* Properties *)

InLoop == pc \in {"filter", "pick"}
IsMember(S, it) == SetHas(S, it)
ItemIndices == 0..(Len(workflows) - 1)

\* A submitted pick round: the step from the pick prompt back to the filter
\* prompt, in which selectedSet is updated
PickRound == pc = "pick" /\ pc' = "filter"

\* C1 (as stated): after ":done" the returned index list holds exactly the
\* indices i whose item items[i] is a member of the selection state.
C1_DoneReturnsAllMemberIndices ==
    msRet = "done" =>
        Range(wIdxs) = {i \in ItemIndices : IsMember(selectedSet, workflows[i + 1])}

\* C1 (amended): after ":done" the returned index list holds exactly the
\* indices i whose item is a member of the selection state and does not occur
\* earlier in the item list; for an item list without repeated display strings
\* these are all the indices of the members.
C1_DoneReturnsFirstMemberIndices ==
    msRet = "done" =>
        Range(wIdxs) = {i \in ItemIndices :
                           /\ IsMember(selectedSet, workflows[i + 1])
                           /\ indexOf(workflows, workflows[i + 1]) = i}

C1_Witness ==
    /\ msRet = "done"
    /\ rounds >= 3
    /\ Len(workflows) = 3
    /\ Len(wIdxs) = 2
    /\ TOGGLE \in Range(result)

\* C2: a submitted pick round leaves the membership of every item outside the
\* visible subset as it was, and whenever the pick prompt is presented each
\* visible item's selected flag is true exactly if the item is a member of the
\* selection state.
C2_HiddenItemsKeepMembership ==
    [][ /\ PickRound =>
            \A i \in 1..Len(workflows) :
                workflows[i] \notin Range(VisItems(visible)) =>
                    (IsMember(selectedSet', workflows[i])
                        <=> IsMember(selectedSet, workflows[i]))
        /\ pc' = "pick" =>
            /\ Len(choices') = Len(visible')
            /\ \A j \in 1..Len(choices') :
                  /\ choices'[j].value = visible'[j].it
                  /\ choices'[j].selected
                        <=> IsMember(selectedSet', choices'[j].value)
      ]_vars

\* An item is shown pre-checked although the round before (submitted without
\* the toggle entry) did not contain it: it was selected earlier and hidden
\* by the filter of the round in between.
C2_Witness ==
    /\ pc = "pick"
    /\ rounds >= 3
    /\ TOGGLE \notin Range(result)
    /\ \E j \in 1..Len(choices) :
          choices[j].selected /\ choices[j].value \notin Range(result)

\* C3: a submission of the toggle entry alone removes all visible items from
\* the selection state if every one of them was a member, and adds all of
\* them otherwise.
C3_ToggleOnlySwitchesBlock ==
    [][ (PickRound /\ result' = <<TOGGLE>>) =>
            IF \A j \in 1..Len(visible) : IsMember(selectedSet, visible[j].it)
            THEN \A j \in 1..Len(visible) : ~IsMember(selectedSet', visible[j].it)
            ELSE \A j \in 1..Len(visible) : IsMember(selectedSet', visible[j].it)
      ]_vars

\* Toggle alone was submitted while only some visible items were pre-checked,
\* and now all of them are members.
C3_Witness ==
    /\ pc = "filter"
    /\ result = <<TOGGLE>>
    /\ filter # CmdReset
    /\ Len(choices) >= 2
    /\ \E j \in 1..Len(choices) : choices[j].selected
    /\ \E j \in 1..Len(choices) : ~choices[j].selected
    /\ \A j \in 1..Len(choices) : IsMember(selectedSet, choices[j].value)

\* C4: after a submission without the toggle entry the visible items that are
\* members of the selection state are exactly the submitted ones.
C4_PicksReplaceVisible ==
    [][ (PickRound /\ TOGGLE \notin Range(result')) =>
            {it \in Range(VisItems(visible)) : IsMember(selectedSet', it)}
                = Range(result')
      ]_vars

\* An item pre-checked from an earlier round was left out of the submission
\* and is no member any more, while the submitted ones are.
C4_Witness ==
    /\ pc = "filter"
    /\ result # <<>>
    /\ TOGGLE \notin Range(result)
    /\ Range(result) \subseteq Range(selectedSet)
    /\ \E j \in 1..Len(choices) :
          choices[j].selected /\ ~IsMember(selectedSet, choices[j].value)

\* C5: reading ":reset" at the filter prompt leaves the selection state empty
\* and the loop at the filter prompt; ":done" read right after it returns the
\* empty index list.
C5_ResetEmptiesSelection ==
    [][ /\ (filter' = CmdReset /\ rounds' # rounds) =>
              (selectedSet' = <<>> /\ pc' = "filter")
        /\ (pc = "filter" /\ filter = CmdReset /\ msRet' = "done") =>
              (wIdxs' = <<>> /\ selectedSet' = <<>>)
      ]_vars

\* ":done" right after ":reset", after rounds that had selected something
C5_Witness ==
    /\ msRet = "done"
    /\ filter = CmdDone
    /\ wIdxs = <<>>
    /\ selectedSet = <<>>
    /\ result # <<>>
    /\ TOGGLE \notin Range(result)
    /\ "No items match that filter" \notin Range(out)

\* C6: a rejected filter or pick prompt makes selectWithEnquirerMulti return
\* the empty index list; the rejection never leaves it as an exception.
C6_AbortReturnsEmpty ==
    /\ msRet # "threw"
    /\ msRet = "abort" => (wIdxs = <<>> /\ pc = "returned")

\* C7: every member of the selection state is a display string of the item
\* list (never the toggle entry), and no step of the loop changes the item
\* list.
C7_MembersAreItems ==
    [][ /\ Range(selectedSet') \subseteq Range(workflows')
        /\ TOGGLE \notin Range(selectedSet')
        /\ InLoop => workflows' = workflows
      ]_vars

\* The toggle entry was submitted together with an item and is no member
C7_Witness ==
    /\ pc = "filter"
    /\ TOGGLE \in Range(result)
    /\ Len(result) >= 2
    /\ Len(selectedSet) >= 2
    /\ Len(selectedSet) < Len(workflows)

\* C8: when the probe of git or of gh fails the process ends with
\* process.exit(1) and no ref listing, selector, workflow listing, prompt or
\* dispatch has taken place.
C8_MissingToolExitsFirst ==
    (~gitOK \/ ~ghOK) =>
        /\ pc \in {"probeGit", "probeGh", "exit1"}
        /\ pc = "probeGh" => gitOK
        /\ refs = <<>> /\ selectedRef = Unset
        /\ data = <<>> /\ workflows = <<>>
        /\ probes["fzf"] = 0
        /\ rounds = 0 /\ filter = Unset /\ msRet = "none"
        /\ ok = "unset" /\ calls = <<>>
        /\ Range(out) \subseteq {"git not found", "gh not found"}

\* git answered, gh did not: the process has exited with status 1
C8_Witness ==
    /\ gitOK /\ ~ghOK
    /\ pc = "exit1"
    /\ out = <<"gh not found">>

\* C9: once the operator has confirmed, the dispatch invocations made so far
\* are those of the first items of the chosen list, one each and in its
\* order, whatever their outcomes; when main has returned there is one for
\* every chosen item.
C9_EveryChosenDispatchedOnce ==
    ok = "yes" =>
        /\ pc \in {"dispatch", "invoking", "returned"}
        /\ Len(calls) = (IF pc = "returned" THEN Len(chosen) ELSE di - 1)
        /\ \A k \in 1..Len(calls) :
              /\ calls[k].item = k
              /\ calls[k].path = PathOf(chosen[k])

\* The first invocation failed, the second one was made and succeeded
C9_Witness ==
    /\ ok = "yes"
    /\ pc = "returned"
    /\ Len(chosen) >= 2
    /\ calls[1].status = "failed"
    /\ calls[2].status = "ok"

\* C10: a dispatch invocation is started only after confirm returned true;
\* after a refusal main has printed "Cancelled." and returned with no
\* invocation made.
C10_NoDispatchWithoutConfirm ==
    /\ (calls # <<>> \/ pc \in {"dispatch", "invoking"}) => ok = "yes"
    /\ ok = "no" =>
          /\ calls = <<>>
          /\ pc = "returned"
          /\ out # <<>> /\ out[Len(out)] = "Cancelled."

\* The operator refused with two workflows chosen
C10_Witness ==
    /\ ok = "no"
    /\ Len(chosen) >= 2
    /\ pc = "returned"

\* C11: when the text `gh workflow list` printed cannot be parsed as JSON
\* (the empty text of a failed command included), the parse error is the
\* last thing reported and the session has ended: no workflow list was
\* built, the multi selector never ran (no second fzf probe, no loop round,
\* no returned indices), confirm was never asked and nothing was dispatched.
C11_ParseErrorEndsSession ==
    (raw # NoText /\ ~raw.json) =>
        /\ pc = "returned"
        /\ out[Len(out)] = "Invalid workflow JSON"
        /\ data = <<>> /\ workflows = <<>>
        /\ probes["fzf"] <= 1
        /\ rounds = 0 /\ msRet = "none" /\ wIdxs = <<>> /\ chosen = <<>>
        /\ ok = "unset" /\ confirmAnswer = NoAnswer
        /\ calls = <<>>

\* C11 witness: after a ref was chosen, the listing command failed (empty
\* text) and the parse error was reported
C11_Witness ==
    /\ raw = EmptyText
    /\ selectedRef \in Range(refs)
    /\ out[Len(out)] = "Invalid workflow JSON"

\* The prompts of the built-in selectors (AutoComplete, one-round MultiSelect,
\* filter Input and pick MultiSelect of the loop)
SelectorPrompts == {"refEnquirer", "wfEnquirer", "filter", "pick"}

\* C12 (as stated): a selection step that ends with an operator interrupt or
\* with an empty result ends the session normally at that point: the fzf ref
\* step that returns no usable index, an interrupted built-in prompt, and a
\* multi selection that returns no index all lead to the normal return of
\* main, never to an escaping exception nor to a later stage, and nothing is
\* dispatched by that step.
C12_EmptySelectionEndsSession ==
    [][ /\ (pc = "refFzf" /\ has("fzf") /\ selectedRef' \notin Range(refs))
              => pc' = "returned"
        /\ (pc \in SelectorPrompts) => pc' # "threw"
        /\ (pc \in {"wfFzf", "wfEnquirer", "filter", "pick"} /\ wIdxs' = <<>>
              /\ pc' \notin SelectorPrompts)
              => (pc' = "returned" /\ calls' = calls /\ ok' = "unset")
      ]_vars

\* C13 (as stated): every dispatch invocation carries as ref the ref the
\* single-choice step returned, and that ref is an element of the ref list.
C13_DispatchRefIsChosenRef ==
    \A i \in 1..Len(calls) :
        /\ calls[i].ref = selectedRef
        /\ calls[i].ref \in Range(refs)

\* C14 (as stated): the path argument of every dispatch invocation equals the
\* path field of the active workflow record whose display string
\* "<name> - <path>" is the chosen item the invocation was made for, whatever
\* the name and the path are.
C14_DispatchedPathIsRecordPath ==
    \A i \in 1..Len(calls) :
        \A k \in 1..Len(data) :
            (data[k].state = "active"
                 /\ Display(data[k]) = chosen[calls[i].item])
                => calls[i].path = data[k].path

\* The active records of the parsed list whose display string is the item
ActiveRecordsOf(item) ==
    {k \in 1..Len(data) : data[k].state = "active" /\ Display(data[k]) = item}

\* A text of which every character is white space has no non-empty line
OnlyWhiteSpace(text) == \A i \in 1..Len(text) : IsSpace(text[i])

\* C15: every item offered for selection is the display string of a record
\* whose state is "active", and as many items are offered as there are active
\* records, so every dispatch invocation is made for an active record; when
\* the parsed list holds no active record the session has ended with
\* "No active workflows." before any workflow selection, confirmation or
\* dispatch; when the ref text holds no non-empty line (the empty text of a
\* failed command included) the ref list is empty and the session has ended
\* with "No refs found." before any selector, workflow listing or dispatch.
C15_OnlyActiveOfferedAndEmptyListsEnd ==
    /\ \A i \in 1..Len(workflows) : ActiveRecordsOf(workflows[i]) # {}
    /\ raw.json =>
          Len(workflows) = Cardinality({k \in 1..Len(data) : data[k].state = "active"})
    /\ \A i \in 1..Len(calls) : ActiveRecordsOf(chosen[calls[i].item]) # {}
    /\ (raw.json /\ \A k \in 1..Len(raw.value) : raw.value[k].state # "active") =>
          /\ pc = "returned"
          /\ out[Len(out)] = "No active workflows."
          /\ probes["fzf"] <= 1 /\ rounds = 0 /\ wIdxs = <<>> /\ chosen = <<>>
          /\ ok = "unset" /\ calls = <<>>
    /\ \A text \in RefTexts : OnlyWhiteSpace(text) => RefsOf(text) = <<>>
    /\ (pc \notin {"probeGit", "probeGh", "listRefs", "exit1"} /\ refs = <<>>) =>
          /\ pc = "returned"
          /\ out = <<"No refs found.">>
          /\ probes["fzf"] = 0 /\ selectedRef = Unset
          /\ raw = NoText /\ data = <<>> /\ workflows = <<>>
          /\ rounds = 0 /\ ok = "unset" /\ calls = <<>>

\* C15 witness: the parsed list holds a record that is not active, and a
\* dispatch invocation has been made
C15_Witness ==
    /\ \E k \in 1..Len(data) : data[k].state # "active"
    /\ calls # <<>>

\* The two places where main awaits selectWithFzf
FzfSteps == {"refFzf", "wfFzf"}

\* C16: at each selection step the built-in prompts are entered if and only
\* if the probe has("fzf") answers no; they are entered from nowhere else;
\* when the probe answers yes the step ends with the fuzzy-finder's result
\* (an empty one included) without any built-in prompt or loop round; and a
\* step at which the probe answers no never ends the session.
C16_BuiltInIffFzfUnavailable ==
    [][ /\ (pc \in FzfSteps) => ((pc' \in SelectorPrompts) <=> ~has("fzf"))
        /\ (pc' \in SelectorPrompts /\ pc \notin SelectorPrompts)
              => (pc \in FzfSteps /\ ~has("fzf"))
        /\ (pc \in FzfSteps /\ has("fzf"))
              => (rounds' = 0 /\ msRet' = "none"
                    /\ pc' \in {"returned", "listWorkflows", "confirm"})
        /\ (pc \in FzfSteps /\ ~has("fzf"))
              => (pc' \notin {"returned", "threw", "exit1"} /\ out' = out)
      ]_vars

\* C16 witness: without the fuzzy-finder the ref was chosen at the built-in
\* prompt and the session is in the built-in multi selector
C16_Witness ==
    /\ ~has("fzf")
    /\ probes["fzf"] = 2
    /\ selectedRef \in Range(refs)
    /\ pc \in {"wfEnquirer", "filter"}

\* The exit statuses the process can end with from the current position:
\* process.exit(1) after a missing tool; 0 after main returned; after main
\* ended by an exception nothing in the module handles the rejected promise,
\* and the runtime ends the process with 1 or, where unhandled rejections
\* only warn, with 0.  Empty while the session is running.
ExitStatuses ==
    CASE pc = "exit1"    -> {1}
      [] pc = "returned" -> {0}
      [] pc = "threw"    -> {0, 1}
      [] OTHER           -> {}

\* C17 (as stated): when git and gh are both present the process ends with
\* exit status 0 on every path through the session.
C17_ExitStatusZero ==
    (has("git") /\ has("gh")) => ExitStatuses \subseteq {0}

\* Two characters that are the same letter in either case
SameLetter(a, b) == LowerChar(a) = LowerChar(b)

\* The text s holds the text q at some offset, letter case ignored
ContainsIgnoringCase(s, q) ==
    \E off \in 0..(Len(s) - Len(q)) :
        \A j \in 1..Len(q) : SameLetter(s[off + j], q[j])

\* vis is exactly the (item, original index) pairs of items that hold q,
\* in the order of items
IsVisibleSubset(vis, items, q) ==
    /\ \A j \in 1..Len(vis) :
          /\ vis[j].idx \in 0..(Len(items) - 1)
          /\ vis[j].it = items[vis[j].idx + 1]
    /\ \A j \in 1..(Len(vis) - 1) : vis[j].idx < vis[j + 1].idx
    /\ {vis[j].idx : j \in 1..Len(vis)} =
           {i \in 0..(Len(items) - 1) : ContainsIgnoringCase(items[i + 1], q)}

\* C18: the visible subset the pick prompt is built from is exactly the
\* (item, original index) pairs, in original order, of the items whose
\* display string holds the trimmed filter text case-insensitively, all items
\* for the empty text; and VisibleOf computes that subset for every listed
\* item list and every filter text the operator can type.
C18_VisibleIsCaseInsensitiveMatch ==
    /\ (pc = "pick") => IsVisibleSubset(visible, workflows, filter)
    /\ (pc = "pick" /\ filter = <<>>) => Len(visible) = Len(workflows)
    /\ (pc = "filter" /\ workflows # <<>>) =>
          \A typed \in FilterQueries :
              IsVisibleSubset(VisibleOf(workflows, trim(typed)), workflows,
                              trim(typed))

\* C18 witness: a filter text in another letter case than the items it
\* matches, and an item it leaves out
C18_Witness ==
    /\ pc = "pick"
    /\ \E j \in 1..Len(visible) :
          ~includes(visible[j].it, filter) /\ includes(visible[j].it, <<"D">>)
    /\ Len(visible) < Len(workflows)

\* The typed line is "y" or "yes" in any letter case, with white space
\* around it at most
IsYes(line) ==
    \E i \in 0..Len(line) : \E j \in i..Len(line) :
        /\ \A k \in 1..i : IsSpace(line[k])
        /\ \A k \in (j + 1)..Len(line) : IsSpace(line[k])
        /\ \/ j - i = 1 /\ SameLetter(line[i + 1], "y")
           \/ j - i = 3 /\ SameLetter(line[i + 1], "y")
                        /\ SameLetter(line[i + 2], "e")
                        /\ SameLetter(line[i + 3], "s")

\* The operator's answer to the confirm prompt is an explicit yes
Affirmative(a) ==
    \/ a.backend = "enquirer" /\ a.value
    \/ a.backend = "readline" /\ IsYes(a.line)

\* C19 (as stated): confirm never fails: whatever happens at the prompt it
\* returns, and it returns true exactly when the operator gave an explicit
\* affirmative answer (to the line-based reader: "y" or "yes" after trimming
\* and lower-casing), false for every other answer, the empty one included.
C19_ConfirmFallsBackAndNeedsYes ==
    [][ (pc = "confirm") =>
            /\ pc' # "threw"
            /\ ok' \in {"yes", "no"}
            /\ (ok' = "yes") <=> Affirmative(confirmAnswer')
      ]_vars

\* Number of entries of the printed messages that are the message m
RECURSIVE CountOf(_, _)
CountOf(msgs, m) ==
    IF msgs = <<>> THEN 0
    ELSE (IF Head(msgs) = m THEN 1 ELSE 0) + CountOf(Tail(msgs), m)

\* Dispatch invocations begun and not yet ended
InProgress == CountOf(out, "Dispatching") - Len(calls)

\* The step in which an invocation ends / in which one begins
InvocationEnds == pc = "invoking" /\ pc' # "invoking"
InvocationBegins == pc # "invoking" /\ pc' = "invoking"

\* C20 (as stated): when a dispatch invocation ends the program prints a
\* report of its outcome, success or failure, before the next invocation
\* begins or the final message is printed; at most one invocation is in
\* progress at any time.
C20_EveryOutcomeReported ==
    [][ /\ InvocationEnds => (Len(out') = Len(out) + 1 /\ InProgress' = 0)
        /\ InvocationBegins => InProgress = 0
        /\ InProgress' \in {0, 1}
      ]_vars

\* C20 (amended): the program announces every invocation before it begins;
\* when an invocation ends it prints "Failed:" if and only if the invocation
\* failed and prints nothing of its own after one that succeeded; this
\* happens in the step that ends the invocation, so before the next
\* announcement and before "Done."; an invocation begins only when none is
\* in progress, so at most one is in progress at any time.
C20_FailuresReportedOneAtATime ==
    [][ /\ InvocationEnds =>
              /\ Len(calls') = Len(calls) + 1
              /\ out' = IF calls'[Len(calls')].status = "ok"
                        THEN out ELSE Append(out, "Failed:")
              /\ pc' = "dispatch"
              /\ InProgress' = 0
        /\ InvocationBegins =>
              /\ InProgress = 0
              /\ calls' = calls
              /\ out' = Append(out, "Dispatching")
        /\ InProgress' \in {0, 1}
        /\ (InProgress' = 1) <=> (pc' = "invoking")
        /\ CountOf(out', "Failed:") =
              Cardinality({i \in 1..Len(calls') : calls'[i].status # "ok"})
      ]_vars

\* C20 witness: a batch in which one invocation succeeded and another failed
\* has been completed
C20_Witness ==
    /\ pc = "returned"
    /\ out[Len(out)] = "Done."
    /\ \E i, j \in 1..Len(calls) :
          calls[i].status = "ok" /\ calls[j].status = "failed"

\* A pick round in which the toggle entry alone is submitted
ToggleOnlyRound == PickRound /\ result' = <<TOGGLE>>

IsVisible(it) == it \in Range(VisItems(visible))

\* C21 (as stated): a toggle-only submission inverts the membership of every
\* visible item, each on its own, and leaves every other item as it was.
C21_ToggleOnlyInvertsEach ==
    [][ ToggleOnlyRound =>
            \A i \in 1..Len(workflows) :
                IF IsVisible(workflows[i])
                THEN IsMember(selectedSet', workflows[i])
                         <=> ~IsMember(selectedSet, workflows[i])
                ELSE IsMember(selectedSet', workflows[i])
                         <=> IsMember(selectedSet, workflows[i])
      ]_vars

\* C21 (amended): a toggle-only submission leaves every item outside the
\* visible subset as it was; it inverts the membership of every visible item
\* when the visible items were all members or all non-members; when only
\* some of them were members, all visible items are members afterwards, so
\* those that were members stay members.
C21_ToggleOnlyInvertsUniformBlock ==
    [][ ToggleOnlyRound =>
            LET uniform ==
                    \/ \A j \in 1..Len(visible) : IsMember(selectedSet, visible[j].it)
                    \/ \A j \in 1..Len(visible) : ~IsMember(selectedSet, visible[j].it)
            IN  \A i \in 1..Len(workflows) :
                    IF ~IsVisible(workflows[i])
                    THEN IsMember(selectedSet', workflows[i])
                             <=> IsMember(selectedSet, workflows[i])
                    ELSE IF uniform
                    THEN IsMember(selectedSet', workflows[i])
                             <=> ~IsMember(selectedSet, workflows[i])
                    ELSE IsMember(selectedSet', workflows[i])
      ]_vars

\* C21 witness: the toggle entry alone was submitted under a filter that
\* hides an item, while one visible item was pre-checked and another was not
C21_Witness ==
    /\ pc = "filter"
    /\ result = <<TOGGLE>>
    /\ filter \notin {Unset, CmdReset}
    /\ Len(visible) < Len(workflows)
    /\ \E j, k \in 1..Len(choices) : choices[j].selected /\ ~choices[k].selected
    /\ \A j \in 1..Len(visible) : IsMember(selectedSet, visible[j].it)

\* The submitted entries other than the toggle entry
WithoutToggle(res) == SelectSeq(res, LAMBDA v : v # TOGGLE)

\* C22: when the toggle entry is submitted together with at least one other
\* entry, the new selection state is the one the same round gives for the
\* same entries without the toggle entry: its members are the former
\* members outside the visible subset together with exactly the submitted
\* non-toggle entries, and the toggle entry is no member.
C22_ToggleWithPicksIsPicks ==
    [][ (PickRound /\ TOGGLE \in Range(result')
            /\ WithoutToggle(result') # <<>>) =>
            /\ selectedSet' =
                   UpdateSelection(selectedSet, visible, WithoutToggle(result'))
            /\ Range(selectedSet') =
                   (Range(selectedSet) \ Range(VisItems(visible)))
                       \cup Range(WithoutToggle(result'))
            /\ TOGGLE \notin Range(selectedSet')
      ]_vars

\* C22 witness: the toggle entry was submitted with one visible item while
\* another visible item, pre-checked, was left out and is no member any more
C22_Witness ==
    /\ pc = "filter"
    /\ filter \notin {Unset, CmdReset}
    /\ TOGGLE \in Range(result)
    /\ WithoutToggle(result) # <<>>
    /\ \E j \in 1..Len(choices) :
          /\ choices[j].selected
          /\ choices[j].value \notin Range(result)
          /\ ~IsMember(selectedSet, choices[j].value)

\* The step in which the filter prompt is answered with a text that is no
\* command and that no item holds
NoMatchAnswered ==
    /\ pc = "filter"
    /\ rounds' = rounds + 1
    /\ filter' \notin {CmdDone, CmdReset}
    /\ \A i \in 1..Len(workflows) : ~ContainsIgnoringCase(workflows[i], filter')

\* C23: when the filter text matches no item, the loop prints the no-match
\* message and is at the filter prompt again, the pick prompt has not been
\* presented (no choices built, no result taken), the selector has not
\* returned, and the selection state is exactly what it was.
C23_NoMatchKeepsSelection ==
    [][ NoMatchAnswered =>
            /\ pc' = "filter"
            /\ out' = Append(out, "No items match that filter")
            /\ selectedSet' = selectedSet
            /\ choices' = choices /\ result' = result
            /\ msRet' = "none" /\ wIdxs' = wIdxs
      ]_vars

\* C23 witness: with a non-empty selection state, a filter text that matches
\* nothing was answered and reported
C23_Witness ==
    /\ pc = "filter"
    /\ selectedSet # <<>>
    /\ filter = <<"z">>
    /\ visible = <<>>
    /\ out[Len(out)] = "No items match that filter"

\* The step in which selectWithEnquirerMulti's loop is left
LoopLeft == InLoop /\ pc' \notin {"filter", "pick"}

\* C24: the filter/select loop is left only by the ":done" command given at
\* the filter prompt (the selector returns the index list) or by an operator
\* abort; a step of the loop that is neither (":reset", a text without
\* match, a submitted pick round) leads to the filter prompt, a filter text
\* with matches to the pick prompt, and the selector has not returned.
C24_LoopEndsOnlyOnDoneOrAbort ==
    [][ /\ LoopLeft =>
              /\ msRet = "none"
              /\ msRet' \in {"done", "abort", "threw"}
              /\ (msRet' = "done") => (pc = "filter" /\ filter' = CmdDone)
              /\ (msRet' = "threw") => (pc' = "threw")
        /\ (InLoop /\ ~LoopLeft) =>
              /\ msRet' = "none" /\ wIdxs' = <<>>
              /\ (pc = "pick") => (pc' = "filter")
              /\ (pc = "filter" /\ filter' = CmdReset) => (pc' = "filter")
              /\ NoMatchAnswered => (pc' = "filter")
              /\ (pc = "filter" /\ pc' = "pick") =>
                     (visible' # <<>> /\ filter' \notin {CmdDone, CmdReset})
      ]_vars

\* C24 witness: the selector returned on ":done" after at least three
\* rounds, among them a text without match and a submitted pick round
C24_Witness ==
    /\ msRet = "done"
    /\ rounds >= 3
    /\ result # <<>>
    /\ wIdxs # <<>>
    /\ \E i \in 1..Len(out) : out[i] = "No items match that filter"

\* The stage of main a position belongs to: 1 tool probes, 2 ref listing,
\* 3 ref selection, 4 workflow listing, 5 workflow selection,
\* 6 confirmation, 7 dispatch; 8 once the session has ended
StageOf(p) ==
    CASE p \in {"probeGit", "probeGh"} -> 1
      [] p = "listRefs" -> 2
      [] p \in {"refFzf", "refEnquirer"} -> 3
      [] p = "listWorkflows" -> 4
      [] p \in {"wfFzf", "wfEnquirer", "filter", "pick"} -> 5
      [] p = "confirm" -> 6
      [] p \in {"dispatch", "invoking"} -> 7
      [] OTHER -> 8

HasEnded(p) == StageOf(p) = 8

\* What the stages before stage k have left behind when they completed
EarlierStagesCompleted(k) ==
    /\ (k >= 2) => (has("git") /\ has("gh")
                      /\ probes["git"] = 1 /\ probes["gh"] = 1)
    /\ (k >= 3) => refs # <<>>
    /\ (k >= 4) => selectedRef # Unset
    /\ (k >= 5) => (raw.json /\ workflows # <<>>)
    /\ (k >= 6) => (wIdxs # <<>> /\ chosen # <<>>)
    /\ (k >= 7) => ok = "yes"

\* C25: a step of the session stays in its stage, goes on to the very next
\* stage, or ends the session; it never goes back to an earlier stage nor
\* skips one, so every stage before dispatch is run at most once; a stage
\* is entered only when every earlier stage has completed with its result;
\* and nothing happens once the session has ended.
C25_StagesInOrder ==
    [][ /\ ~HasEnded(pc)
        /\ HasEnded(pc') \/ StageOf(pc') \in {StageOf(pc), StageOf(pc) + 1}
        /\ \A k \in 1..7 : (StageOf(pc') = k) => EarlierStagesCompleted(k)'
      ]_vars

\* C25 witness: a session that went through every stage and completed a
\* dispatch batch
C25_Witness ==
    /\ HasEnded(pc)
    /\ out # <<>>
    /\ out[Len(out)] = "Done."
    /\ Len(calls) >= 2
    /\ EarlierStagesCompleted(7)

\* The sequences of lines the fuzzy-finder can print for the given input
\* records, and the text it prints for such a sequence
PrintedLines(lines, multi) ==
    LET cand == Range(lines) \cup {<<"x">>}
        most == IF multi THEN MaxFzfLines ELSE 1
    IN  {t \in UNION {[1..k -> cand] : k \in 0..most} :
            \A i, j \in 1..Len(t) : i # j => t[i] # t[j]}

PrintedText(t) == join(t) \o (IF t = <<>> THEN <<>> ELSE <<"\n">>)

\* The number lo..hi a line's leading tab-separated token is the decimal
\* text of, -1 when it is none of them
NumberOf(line, lo, hi) ==
    LET tok == Head(split(line, <<"\t">>))
    IN  IF \E k \in lo..hi : numToStr(k) = tok
        THEN CHOOSE k \in lo..hi : numToStr(k) = tok
        ELSE -1

\* Each line numbered k in lo..hi gives k - off, in the order of the lines;
\* the other lines give nothing
IndicesOfLines(t, lo, hi, off) ==
    LET ks == SelectSeq([i \in 1..Len(t) |-> NumberOf(t[i], lo, hi)],
                        LAMBDA k : k >= lo)
    IN  [i \in 1..Len(ks) |-> ks[i] - off]

\* The lists main hands to selectWithFzf at the current position
FzfItems == IF pc = "refFzf" THEN refs ELSE workflows
FzfMulti == pc = "wfFzf"

\* C26 (as stated): every output line whose leading token is the 1-based
\* number k of an input record gives the index k-1, in the order of the
\* lines, every other line is dropped, empty output gives the empty list,
\* and every returned index i satisfies 0 <= i < len(items).
C26_FzfLinesOneBased ==
    (pc \in FzfSteps /\ has("fzf")) =>
        \A t \in PrintedLines(FzfInput(version, FzfItems, FzfMulti), FzfMulti) :
            LET r == FzfParse(version, PrintedText(t), FzfItems, FzfMulti)
            IN  /\ r = IndicesOfLines(t, 1, Len(FzfItems), 1)
                /\ \A i \in 1..Len(r) : r[i] \in 0..(Len(FzfItems) - 1)
                /\ (t = <<>>) => (r = <<>>)

\* What the amended claim says the lines t give, per revision
IndicesExpected(ver, t, n, multi) ==
    IF ver # "part_002a" THEN IndicesOfLines(t, 1, n, 1)
    ELSE IF ~multi THEN IndicesOfLines(t, 0, n - 1, 0)
    ELSE IF \E i \in 1..Len(t) : NumberOf(t[i], 0, n) = 0
    THEN [i \in 1..n |-> i - 1]
    ELSE IndicesOfLines(t, 1, n, 1)

\* C26 (amended): in index.js, part_000, part_001 and the second module of
\* part_002 the records are numbered from 1 and a line numbered k gives k-1;
\* in the first module of part_002 the records are numbered from 0: in
\* single mode a line numbered k gives k, in multi mode record 0 is the
\* select-all line, which gives every index, and otherwise a line numbered k
\* gives k-1.  In every revision the other lines are dropped, the order of
\* the lines is kept, empty output gives the empty list, every returned
\* index i satisfies 0 <= i < len(items), and so does every index main got
\* from the fuzzy-finder.
C26_FzfLinesToIndices ==
    /\ (pc \in FzfSteps /\ has("fzf")) =>
          \A t \in PrintedLines(FzfInput(version, FzfItems, FzfMulti), FzfMulti) :
              LET r == FzfParse(version, PrintedText(t), FzfItems, FzfMulti)
              IN  /\ r = IndicesExpected(version, t, Len(FzfItems), FzfMulti)
                  /\ \A i \in 1..Len(r) : r[i] \in 0..(Len(FzfItems) - 1)
                  /\ (t = <<>>) => (r = <<>>)
    /\ has("fzf") =>
          \A i \in 1..Len(wIdxs) : wIdxs[i] \in 0..(Len(workflows) - 1)

\* C26 witness: the fuzzy-finder printed the third record before the first,
\* and main got the indices 2 and 0 in that order
C26_Witness ==
    /\ has("fzf")
    /\ version = "part_002b"
    /\ wIdxs = <<2, 0>>
    /\ chosen = <<workflows[3], workflows[1]>>

\* C27 (as stated): each of git, gh and fzf is probed at most once in a
\* session; in particular the fzf probe made for the ref selection is not
\* made again for the workflow selection.
C27_EachToolProbedOnce ==
    \A c \in {"git", "gh", "fzf"} : probes[c] <= 1

\* The entries the pick prompt presents pre-checked, in the order presented
PreChecked(chs) ==
    LET on == SelectSeq(chs, LAMBDA c : c.selected)
    IN  [i \in 1..Len(on) |-> on[i].value]

\* C28: a pick round in which exactly the pre-checked entries are submitted,
\* without the toggle entry, leaves the set of members of the selection
\* state as it was.
C28_ResubmittingPreCheckedKeepsMembers ==
    [][ (PickRound /\ result' = PreChecked(choices)) =>
            Range(selectedSet') = Range(selectedSet)
      ]_vars

\* C28 witness: under a filter that hides a member, the pre-checked entries,
\* some but not all of the visible items, were submitted as they were
C28_Witness ==
    /\ pc = "filter"
    /\ filter \notin {Unset, CmdReset}
    /\ result # <<>>
    /\ result = PreChecked(choices)
    /\ \E j \in 1..Len(choices) : ~choices[j].selected
    /\ Range(selectedSet) \ Range(VisItems(visible)) # {}
    /\ Range(result) \subseteq Range(selectedSet)

\* No entry of the sequence occurs at two positions
NoRepeats(seq) == \A i, j \in 1..Len(seq) : i # j => seq[i] # seq[j]

\* C29: the index list selectWithEnquirerMulti returned on ":done" holds no
\* index twice and only indices i with 0 <= i < len(items); the chosen
\* workflows are therefore pairwise different items, and no item of them has
\* two dispatch invocations.
C29_DoneIndicesDistinctInRange ==
    (msRet = "done") =>
        /\ NoRepeats(wIdxs)
        /\ \A i \in 1..Len(wIdxs) : wIdxs[i] \in ItemIndices
        /\ NoRepeats(chosen)
        /\ NoRepeats([i \in 1..Len(calls) |-> calls[i].item])
        /\ NoRepeats([i \in 1..Len(calls) |-> calls[i].path])

\* C29 witness: after two or more rounds over an item list with two equal
\* display strings, both submitted, the selector returned one index on
\* ":done", and the chosen workflow has been dispatched
C29_Witness ==
    /\ msRet = "done"
    /\ rounds >= 2
    /\ Len(result) >= 2
    /\ Len(wIdxs) = 1
    /\ ~NoRepeats(workflows)
    /\ Len(calls) = Len(wIdxs)

=============================================================================
